---------------------------- MODULE Spec2Model ----------------------------
(***************************************************************************)
(* Model of plugins/home CustomHomepageGrid.tsx: the layout document store *)
(* (useHomeStorage), the catalog derivation (availableWidgetsFilter), the  *)
(* default layout builder (convertConfigToDefaultWidgets) and the handlers *)
(* of the CustomHomepageGrid component.                                    *)
(*                                                                         *)
(* Values.  A string is a sequence of tokens, so that template strings are *)
(* concatenations.  An optional value (T | undefined) is a set with at     *)
(* most one element.  A JS object is a record; a key whose value is        *)
(* undefined is an absent key.  Numbers are integers, plus the two         *)
(* distinguished values NegInf (-Infinity) and JsonNull (null).            *)
(***************************************************************************)
EXTENDS Integers, Sequences, FiniteSets, TLC

VARIABLES
    props,                \* [children, config]: the component's props
    mounted,              \* the first render has run
    renderError,          \* a render threw (the component is gone)
    store,                \* raw value under key 'home' of the bucket
    inflight,             \* store notifications not yet delivered, in order
    homeSnapshot,         \* the snapshot useObservable last delivered
    defaultLayout,        \* defaultLayout of the latest render
    widgets,              \* widgets of the latest render
    editMode,             \* React state editMode
    addWidgetDialogOpen,  \* React state addWidgetDialogOpen
    firstDefault,         \* defaultLayout of the first render
    saved,                \* argument of the latest setWidgets call
    nSaves,               \* number of setWidgets calls so far
    last                  \* the latest handler call: its name and what it saw

vars == <<props, mounted, renderError, store, inflight, homeSnapshot,
          defaultLayout, widgets, editMode, addWidgetDialogOpen,
          firstDefault, saved, nSaves, last>>

-----------------------------------------------------------------------------
(* Bounds of the model *)

MaxSaves == 2

(* Longest config the builder specification draws *)
MaxConfigLen == 3

(* Values of Math.random().toString(36).slice(2) *)
Suffixes == {<<"a">>, <<"b">>}

(* x positions the grid engine may move a widget to *)
MoveXs == {2}

-----------------------------------------------------------------------------
(* Numbers *)

NegInf == -1000000

JsonNull == -2000000

MAX_VALUE == 1000000

DefaultW == 12

DefaultH == 4

Some(opt) == CHOOSE v \in opt : TRUE

(* a ?? b *)
OrElse(opt, d) == IF opt = {} THEN d ELSE Some(opt)

(* a + b on JS numbers *)
Plus(a, b) == IF a = NegInf \/ b = NegInf THEN NegInf ELSE a + b

MathMin(a, b) == IF a <= b THEN a ELSE b

(* Math.max(...s): -Infinity when there is no argument *)
MathMax(s) ==
    IF Len(s) = 0 THEN NegInf
    ELSE CHOOSE m \in {s[i] : i \in 1..Len(s)} :
             \A i \in 1..Len(s) : s[i] <= m

DigitChars == <<"0", "1", "2", "3", "4", "5", "6", "7", "8", "9">>

(* String(n) for n >= 0 *)
RECURSIVE NumToString(_)
NumToString(n) ==
    IF n < 10 THEN <<DigitChars[n + 1]>>
    ELSE NumToString(n \div 10) \o <<DigitChars[(n % 10) + 1]>>

(* seq.map(f) *)
Map(s, f(_)) == [i \in 1..Len(s) |-> f(s[i])]

(* seq.findIndex(p), 1-based, 0 when none *)
FindIndex(s, p(_)) ==
    IF \E i \in 1..Len(s) : p(s[i])
    THEN CHOOSE i \in 1..Len(s) : p(s[i]) /\ \A j \in 1..(i - 1) : ~p(s[j])
    ELSE 0

(* seq.find(p) as an optional value *)
Find(s, p(_)) ==
    LET i == FindIndex(s, p) IN IF i = 0 THEN {} ELSE {s[i]}

(* lodash compact / flatMap over optional values *)
RECURSIVE Compact(_)
Compact(s) ==
    IF Len(s) = 0 THEN <<>>
    ELSE (IF Head(s) = {} THEN <<>> ELSE <<Some(Head(s))>>) \o Compact(Tail(s))

-----------------------------------------------------------------------------
(* Widget schema (types.ts): size bounds are optional positive integers *)

SizeKeys == {"width", "minWidth", "maxWidth", "height", "minHeight", "maxHeight"}

WidgetSchemaOK(rec) ==
    \A k \in SizeKeys : \A v \in rec[k] : v > 0

(* The record availableWidgetsFilter builds from one child element *)
WidgetOf(elem) ==
    [ component |-> elem.type,
      name      |-> Some(elem.extensionName),
      width     |-> elem.defaultColumns,
      minWidth  |-> elem.minColumns,
      maxWidth  |-> elem.maxColumns,
      height    |-> elem.defaultRows,
      minHeight |-> elem.minRows,
      maxHeight |-> elem.maxRows ]

(* selectByComponentData({key: 'core.extensionName'}) *)
SelectByComponentData(elements) ==
    SelectSeq(elements, LAMBDA e : e.extensionName # {})

(* WidgetSchema.parse throws inside flatMap: the whole derivation throws *)
availableWidgetsThrows(elements) ==
    \E i \in 1..Len(SelectByComponentData(elements)) :
        ~WidgetSchemaOK(WidgetOf(SelectByComponentData(elements)[i]))

availableWidgetsFilter(elements) ==
    Map(SelectByComponentData(elements), WidgetOf)

-----------------------------------------------------------------------------
(* Widget ids *)

(* `${name}__${index}${suffix}` *)
WidgetId(name, index, suffix) ==
    <<name, "__">> \o NumToString(index) \o suffix

(* key.split('__')[0] *)
getWidgetNameFromKey(key) ==
    LET cut == FindIndex(key, LAMBDA t : t = "__")
    IN  IF cut = 0 THEN key ELSE SubSeq(key, 1, cut - 1)

getWidgetByName(availableWidgets, name) ==
    Find(availableWidgets, LAMBDA w : <<w.name>> = name)

-----------------------------------------------------------------------------
(* Default layout builder *)

BuildW_NoClamp(widget, c) == c.width

BuildW(widget, c) == MathMin(OrElse(widget.maxWidth, MAX_VALUE), c.width)

BuildH(widget, c) == MathMin(OrElse(widget.maxHeight, MAX_VALUE), c.height)

(* One config entry: null (the empty option) or a GridWidget.  i is the     *)
(* 0-based index of config.map, suffix the value Math.random yields.        *)
ConvertOne(c, i, availableWidgets, suffix) ==
    IF c.component = {} THEN {}
    ELSE LET widget == Find(availableWidgets,
                            LAMBDA w : w.name = Some(c.component))
         IN  IF widget = {} THEN {}
             ELSE LET wd == Some(widget)
                      widgetId == WidgetId(wd.name, i, suffix)
                  IN  {[ id |-> widgetId,
                         layout |-> [ i |-> widgetId,
                                      x |-> c.x,
                                      y |-> c.y,
                                      w |-> BuildW(wd, c),
                                      h |-> BuildH(wd, c),
                                      minW |-> wd.minWidth,
                                      maxW |-> wd.maxWidth,
                                      minH |-> wd.minHeight,
                                      maxH |-> wd.maxHeight,
                                      isDraggable |-> FALSE,
                                      isResizable |-> FALSE ],
                         settings |-> {} ]}

convertConfig_Reversed(config, availableWidgets, rnd) ==
    LET ret == Compact([i \in 1..Len(config) |->
                   ConvertOne(config[i], i - 1, availableWidgets, rnd[i])])
    IN  [k \in 1..Len(ret) |-> ret[Len(ret) + 1 - k]]

(* rnd[i]: the suffix drawn for the i-th entry *)
convertConfigToDefaultWidgets(config, availableWidgets, rnd) ==
    Compact([i \in 1..Len(config) |->
                ConvertOne(config[i], i - 1, availableWidgets, rnd[i])])

-----------------------------------------------------------------------------
(* Layout document store: useHomeStorage *)

(* JSON.stringify of a number: -Infinity is written as null *)
JsonNumber(v) == IF v = NegInf THEN JsonNull ELSE v

JsonLayout(l) ==
    [l EXCEPT !.x = JsonNumber(l.x), !.y = JsonNumber(l.y),
              !.w = JsonNumber(l.w), !.h = JsonNumber(l.h)]

(* JSON.stringify of one GridWidget: keys holding undefined are absent *)
JsonWidget(gw) ==
    [k \in DOMAIN gw |-> IF k = "layout" THEN JsonLayout(gw[k]) ELSE gw[k]]

(* JSON.stringify({version: 1, pages: {default: value}}) *)
Stringify(value) ==
    [ kind |-> "json",
      json |-> [ version |-> 1,
                 pages   |-> [default |-> Map(value, JsonWidget)] ] ]

(* setWidgets writes this raw value under the key *)
setWidgetsRaw(value) == Stringify(value)

(* JSON.parse(homeSnapshot.value!) throws a SyntaxError *)
JsonParseThrows(snapshot) ==
    \/ snapshot.presence # "present"
    \/ snapshot.value.kind # "json"

(* GridWidget and layout document schema (types.ts) *)
LayoutSchemaOK(l) ==
    /\ {"i", "x", "y", "w", "h", "isDraggable", "isResizable"} \subseteq DOMAIN l
    /\ \A k \in {"x", "y", "w", "h"} : l[k] # JsonNull

GridWidgetSchemaOK(gw) ==
    /\ {"id", "layout", "settings"} \subseteq DOMAIN gw
    /\ LayoutSchemaOK(gw.layout)

CustomHomepageGridStateV1SchemaOK(grid) ==
    /\ {"version", "pages"} \subseteq DOMAIN grid
    /\ grid.version = 1
    /\ "default" \in DOMAIN grid.pages
    /\ \A i \in 1..Len(grid.pages.default) :
           GridWidgetSchemaOK(grid.pages.default[i])

(* The try block of the useMemo throws *)
LoadThrows(snapshot) ==
    \/ JsonParseThrows(snapshot)
    \/ ~CustomHomepageGridStateV1SchemaOK(snapshot.value.json)

Load_CatchYieldsEmpty(snapshot, defaultWidgets) ==
    IF snapshot.presence = "absent" THEN defaultWidgets
    ELSE IF LoadThrows(snapshot) THEN <<>>
    ELSE snapshot.value.json.pages.default

(* The widgets useMemo *)
Load(snapshot, defaultWidgets) ==
    IF snapshot.presence = "absent" THEN defaultWidgets
    ELSE IF LoadThrows(snapshot) THEN defaultWidgets
    ELSE snapshot.value.json.pages.default

Absent == [presence |-> "absent"]

Present(raw) == [presence |-> "present", value |-> raw]

-----------------------------------------------------------------------------
(* Handlers of CustomHomepageGrid, as the value each passes to setWidgets *)

(* y of a widget added to ws *)
AddY(ws) == Plus(MathMax(Map(ws, LAMBDA w : Plus(w.layout.y, w.layout.h))), 1)

AddW(widget) ==
    MathMin(OrElse(widget.maxWidth, MAX_VALUE), OrElse(widget.width, DefaultW))

AddH(widget) ==
    MathMin(OrElse(widget.maxHeight, MAX_VALUE), OrElse(widget.height, DefaultH))

AddIndex(ws) == Len(ws) + 1

AddFlag(mode) == mode

NewGridWidget(ws, widget, mode, suffix) ==
    LET widgetId == WidgetId(widget.name, AddIndex(ws), suffix)
    IN  [ id |-> widgetId,
          layout |-> [ i |-> widgetId,
                       x |-> 0,
                       y |-> AddY(ws),
                       w |-> AddW(widget),
                       h |-> AddH(widget),
                       minW |-> widget.minWidth,
                       maxW |-> widget.maxWidth,
                       minH |-> widget.minHeight,
                       maxH |-> widget.maxHeight,
                       isResizable |-> AddFlag(mode),
                       isDraggable |-> AddFlag(mode) ],
          settings |-> {} ]

handleAddValue(ws, widget, mode, suffix) ==
    ws \o <<NewGridWidget(ws, widget, mode, suffix)>>

HasId(gw, widgetId) == "id" \in DOMAIN gw /\ gw.id = widgetId

handleRemoveValue_Nothing(ws, widgetId) == ws

handleRemoveValue(ws, widgetId) ==
    SelectSeq(ws, LAMBDA w : ~HasId(w, widgetId))

(* idx of handleSettingsSave, 1-based, 0 when findIndex yields -1 *)
SettingsIdx(ws, widgetId) == FindIndex(ws, LAMBDA w : HasId(w, widgetId))

handleSettingsSaveValue_All(ws, widgetId, widgetSettings) ==
    [i \in 1..Len(ws) |-> [ws[i] EXCEPT !.settings = widgetSettings]]

(* widgets after widget.settings = widgetSettings; widgets[idx] = widget *)
handleSettingsSaveValue(ws, widgetId, widgetSettings) ==
    [ws EXCEPT ![SettingsIdx(ws, widgetId)] =
        [k \in DOMAIN @ \cup {"settings"} |->
            IF k = "settings" THEN widgetSettings ELSE @[k]]]

changeEditModeValue(ws, mode) ==
    Map(ws, LAMBDA w :
        [k \in DOMAIN w \cup {"layout"} |->
            IF k = "layout"
            THEN [w.layout EXCEPT !.isDraggable = mode, !.isResizable = mode]
            ELSE w[k]])

MergeLayout_KeepsOld(ws, l) ==
    LET widget == Find(ws, LAMBDA w : HasId(w, l.i))
    IN  IF widget = {} THEN [layout |-> l] ELSE Some(widget)

(* {...widget, layout: l} with widget = widgets.find(w => w.id === l.i) *)
MergeLayout(ws, l) ==
    LET widget == Find(ws, LAMBDA w : HasId(w, l.i))
    IN  IF widget = {} THEN [layout |-> l]
        ELSE [k \in DOMAIN Some(widget) \cup {"layout"} |->
                 IF k = "layout" THEN l ELSE Some(widget)[k]]

handleLayoutChangeValue(ws, newLayout) ==
    Map(newLayout, LAMBDA l : MergeLayout(ws, l))

(* editModeOn: widgets.find(w => w.layout.isResizable) !== undefined *)
editModeOn(ws) == \E i \in 1..Len(ws) : ws[i].layout.isResizable

-----------------------------------------------------------------------------
(* The render loop and the grid engine *)

(* The widget is rendered as a child of ResponsiveGrid *)
IsRendered(availableWidgets, gw) ==
    LET widget == getWidgetByName(availableWidgets,
                                  getWidgetNameFromKey(gw.layout.i))
    IN  widget # {} /\ Some(widget).component # {}

RenderedKeys(availableWidgets, ws) ==
    Map(SelectSeq(ws, LAMBDA w : IsRendered(availableWidgets, w)),
        LAMBDA w : w.layout.i)

(* layouts.lg: the engine gives each child the first layout with its key *)
EngineLayout(availableWidgets, ws) ==
    Map(RenderedKeys(availableWidgets, ws),
        LAMBDA key : ws[FindIndex(ws, LAMBDA w : w.layout.i = key)].layout)

(* What onLayoutChange may be called with: the engine's layout as it is,   *)
(* or with one child moved along x.                                        *)
EngineLayouts(availableWidgets, ws) ==
    LET base == EngineLayout(availableWidgets, ws)
    IN  {base} \cup
        {[base EXCEPT ![k].x = nx] : k \in 1..Len(base), nx \in MoveXs}

-----------------------------------------------------------------------------
(* Props and stored values the component may start from *)

Elem(type, name, defC, minC, maxC, defR, minR, maxR) ==
    [ type |-> {type}, extensionName |-> name,
      defaultColumns |-> defC, minColumns |-> minC, maxColumns |-> maxC,
      defaultRows |-> defR, minRows |-> minR, maxRows |-> maxR ]

ClockElem == Elem("ClockCard", {"clock"}, {}, {1}, {4}, {}, {}, {2})

NewsElem == Elem("NewsCard", {"news"}, {6}, {}, {8}, {}, {}, {})

PlainElem == Elem("Header", {}, {}, {}, {}, {}, {}, {})

(* maxColumns: 0 fails the Widget schema *)
BadElem == Elem("BadCard", {"bad"}, {}, {}, {0}, {}, {}, {})

ChildrenOK == <<PlainElem, ClockElem>>

ChildrenBad == <<BadElem, ClockElem>>

ChildrenSets == {ChildrenOK, ChildrenBad}

Conf(component, x, y, width, height) ==
    [component |-> component, x |-> x, y |-> y, width |-> width, height |-> height]

Config1 == <<Conf({"clock"}, 0, 0, 8, 5), Conf({"ghost"}, 4, 0, 2, 2),
             Conf({}, 0, 2, 1, 1)>>

(* props.config: undefined or a LayoutConfiguration[] *)
Configs == {{}, {Config1}}

StoredWidget(widgetId, x, y, w, h, maxW, maxH, mode) ==
    [ id |-> widgetId,
      layout |-> [ i |-> widgetId, x |-> x, y |-> y, w |-> w, h |-> h,
                   minW |-> {}, maxW |-> maxW, minH |-> {}, maxH |-> maxH,
                   isDraggable |-> mode, isResizable |-> mode ],
      settings |-> {} ]

(* A document of an earlier session, saved while in edit mode: its catalog *)
(* still had 'gone', and a widget added between the two was removed        *)
DocMidEdit ==
    Stringify(<<StoredWidget(<<"gone", "__", "1", "a">>, 0, 0, 3, 2, {}, {}, TRUE),
                StoredWidget(<<"clock", "__", "3", "a">>, 0, 5, 4, 2, {4}, {2}, TRUE)>>)

(* A stored document, saved in edit mode, whose one widget has a layout key *)
(* other than its id                                                       *)
DocSkewed ==
    Stringify(<<[StoredWidget(<<"clock", "__", "1", "a">>, 0, 0, 4, 2, {4}, {2}, TRUE)
                    EXCEPT !.layout.i = <<"clock", "__", "2", "b">>]>>)

DocVersion2 ==
    [kind |-> "json", json |-> [version |-> 2, pages |-> [default |-> <<>>]]]

NotJson == [kind |-> "text"]

(* storageApi.snapshot(key) when the component mounts *)
InitialSnapshots ==
    {Absent, Present(DocMidEdit), Present(DocSkewed)}

(* Settings a widget's settings dialog may submit *)
SettingsValues == {{<<"zone", "utc">>}}

-----------------------------------------------------------------------------
(* Renders *)

availableWidgets == availableWidgetsFilter(props.children)

(* The values Math.random yields in one render, one per config entry *)
Rnds ==
    LET config == IF props.config = {} THEN <<>> ELSE Some(props.config)
        drawn == [i \in 1..Len(config) |->
                     ConvertOne(config[i], i - 1, availableWidgets, <<>>) # {}]
    IN  {rnd \in [1..Len(config) -> Suffixes \cup {<<>>}] :
            \A i \in 1..Len(config) : (rnd[i] = <<>>) <=> ~drawn[i]}

(* defaultLayout of a render whose Math.random calls yield rnd *)
DefaultLayoutOf(rnd) ==
    IF props.config = {} THEN <<>>
    ELSE convertConfigToDefaultWidgets(Some(props.config), availableWidgets, rnd)

(* A render with the snapshot snap: defaultLayout and widgets are recomputed *)
Render(snap) ==
    \E rnd \in Rnds :
        /\ defaultLayout' = DefaultLayoutOf(rnd)
        /\ widgets' = Load(snap, defaultLayout')

NoCall == [op |-> "none", id |-> <<>>]

(* The record of a handler call: its name and the widget id it was called  *)
(* with (the empty string when it takes none)                              *)
Call(op, widgetId) == [op |-> op, id |-> widgetId]

InitWith(p, snap) ==
    /\ props = p
    /\ mounted = FALSE
    /\ renderError = FALSE
    /\ homeSnapshot = snap
    /\ store = IF snap.presence = "present" THEN {snap.value} ELSE {}
    /\ inflight = <<>>
    /\ defaultLayout = <<>>
    /\ widgets = <<>>
    /\ editMode = FALSE
    /\ addWidgetDialogOpen = FALSE
    /\ firstDefault = <<>>
    /\ saved = <<>>
    /\ nSaves = 0
    /\ last = NoCall

(* The store holds raw but has not loaded it yet: snapshot(key) is of       *)
(* unknown presence and observe$ delivers the value after the first render *)
InitPending(p, raw) ==
    /\ props = p
    /\ mounted = FALSE
    /\ renderError = FALSE
    /\ homeSnapshot = [presence |-> "unknown"]
    /\ store = {raw}
    /\ inflight = <<raw>>
    /\ defaultLayout = <<>>
    /\ widgets = <<>>
    /\ editMode = FALSE
    /\ addWidgetDialogOpen = FALSE
    /\ firstDefault = <<>>
    /\ saved = <<>>
    /\ nSaves = 0
    /\ last = NoCall

Init ==
    \/ \E p \in [children : ChildrenSets, config : Configs],
          snap \in InitialSnapshots : InitWith(p, snap)
    \/ \E config \in Configs :
          InitPending([children |-> ChildrenOK, config |-> config], DocMidEdit)

(* The first render.  The catalog derivation may throw; otherwise          *)
(* useState(editModeOn) fixes the initial editMode.                        *)
Mount ==
    /\ ~mounted
    /\ mounted' = TRUE
    /\ IF availableWidgetsThrows(props.children)
       THEN /\ renderError' = TRUE
            /\ UNCHANGED <<defaultLayout, widgets, editMode, firstDefault>>
       ELSE /\ Render(homeSnapshot)
            /\ firstDefault' = defaultLayout'
            /\ editMode' = editModeOn(widgets')
            /\ UNCHANGED renderError
    /\ UNCHANGED <<props, store, inflight, homeSnapshot, addWidgetDialogOpen,
                   saved, nSaves, last>>

Live == mounted /\ ~renderError

(* The Dialog is modal: while it is open the header buttons and the widget *)
(* overlays behind it take no clicks                                       *)
Clickable == Live /\ ~addWidgetDialogOpen

(* setWidgets(value): storageApi.set, which notifies the observers later *)
SetWidgets(value) ==
    /\ nSaves < MaxSaves
    /\ store' = {setWidgetsRaw(value)}
    /\ inflight' = Append(inflight, setWidgetsRaw(value))
    /\ saved' = value
    /\ nSaves' = nSaves + 1

(* The store's notification reaches useObservable: a render follows *)
Notify ==
    /\ Live
    /\ inflight # <<>>
    /\ homeSnapshot' = Present(Head(inflight))
    /\ inflight' = Tail(inflight)
    /\ Render(homeSnapshot')
    /\ UNCHANGED <<props, mounted, renderError, firstDefault, store, editMode,
                   addWidgetDialogOpen, saved, nSaves, last>>

OpenAddWidgetDialog ==
    /\ Clickable
    /\ addWidgetDialogOpen' = TRUE
    /\ Render(homeSnapshot)
    /\ UNCHANGED <<props, mounted, renderError, firstDefault, store, inflight, homeSnapshot,
                   editMode, saved, nSaves, last>>

CloseAddWidgetDialog ==
    /\ Live
    /\ addWidgetDialogOpen
    /\ addWidgetDialogOpen' = FALSE
    /\ Render(homeSnapshot)
    /\ UNCHANGED <<props, mounted, renderError, firstDefault, store, inflight, homeSnapshot,
                   editMode, saved, nSaves, last>>

(* handleAdd is passed to AddWidgetDialog, inside the Dialog *)
handleAdd(widget, suffix) ==
    /\ Live
    /\ addWidgetDialogOpen
    /\ SetWidgets(handleAddValue(widgets, widget, editMode, suffix))
    /\ addWidgetDialogOpen' = FALSE
    /\ Render(homeSnapshot)
    /\ last' = Call("add", <<>>)
    /\ UNCHANGED <<props, mounted, renderError, firstDefault, homeSnapshot, editMode>>

(* The overlay that calls handleRemove and handleSettingsSave exists in    *)
(* edit mode, for the rendered widgets, with id = l.i                      *)
OverlayIds ==
    IF editMode
    THEN {RenderedKeys(availableWidgets, widgets)[k] :
             k \in 1..Len(RenderedKeys(availableWidgets, widgets))}
    ELSE {}

handleRemove(widgetId) ==
    /\ Clickable
    /\ widgetId \in OverlayIds
    /\ SetWidgets(handleRemoveValue(widgets, widgetId))
    /\ last' = Call("remove", widgetId)
    /\ UNCHANGED <<props, mounted, renderError, firstDefault, homeSnapshot, defaultLayout,
                   widgets, editMode, addWidgetDialogOpen>>

(* widgets is the defaultLayout array itself when the useMemo fell back *)
WidgetsIsDefaultLayout ==
    homeSnapshot.presence = "absent" \/ LoadThrows(homeSnapshot)

handleSettingsSave(widgetId, widgetSettings) ==
    /\ Clickable
    /\ widgetId \in OverlayIds
    /\ IF SettingsIdx(widgets, widgetId) # 0
       THEN /\ widgets' = handleSettingsSaveValue(widgets, widgetId, widgetSettings)
            /\ defaultLayout' =
                   IF WidgetsIsDefaultLayout THEN widgets' ELSE defaultLayout
            /\ SetWidgets(widgets')
       ELSE UNCHANGED <<widgets, defaultLayout, store, inflight, saved, nSaves>>
    /\ last' = Call("saveSettings", widgetId)
    /\ UNCHANGED <<props, mounted, renderError, firstDefault, homeSnapshot, editMode,
                   addWidgetDialogOpen>>

clearLayout ==
    /\ Clickable
    /\ SetWidgets(<<>>)
    /\ last' = Call("clear", <<>>)
    /\ UNCHANGED <<props, mounted, renderError, firstDefault, homeSnapshot, defaultLayout,
                   widgets, editMode, addWidgetDialogOpen>>

changeEditMode(mode) ==
    /\ Clickable
    /\ editMode' = mode
    /\ SetWidgets(changeEditModeValue(widgets, mode))
    /\ IF mode # editMode
       THEN Render(homeSnapshot)
       ELSE UNCHANGED <<defaultLayout, widgets>>
    /\ last' = Call("setEditMode", <<>>)
    /\ UNCHANGED <<props, mounted, renderError, firstDefault, homeSnapshot,
                   addWidgetDialogOpen>>

LayoutChangeApplies_Always(mode) == TRUE

(* if (editMode) *)
LayoutChangeApplies(mode) == mode

handleLayoutChange(newLayout) ==
    /\ Live
    /\ IF LayoutChangeApplies(editMode)
       THEN SetWidgets(handleLayoutChangeValue(widgets, newLayout))
       ELSE UNCHANGED <<store, inflight, saved, nSaves>>
    /\ last' = Call("layoutChange", <<>>)
    /\ UNCHANGED <<props, mounted, renderError, firstDefault, homeSnapshot, defaultLayout,
                   widgets, editMode, addWidgetDialogOpen>>

(* defaultConfigAvailable={props.config !== undefined} *)
defaultConfigAvailable == props.config # {}

handleRestoreDefaultConfig ==
    /\ Clickable
    /\ defaultConfigAvailable
    /\ SetWidgets(defaultLayout)
    /\ last' = Call("restoreDefault", <<>>)
    /\ UNCHANGED <<props, mounted, renderError, firstDefault, homeSnapshot, defaultLayout,
                   widgets, editMode, addWidgetDialogOpen>>

Next ==
    \/ Mount
    \/ Notify
    \/ OpenAddWidgetDialog
    \/ CloseAddWidgetDialog
    \/ \E k \in 1..Len(availableWidgets), suffix \in Suffixes :
          handleAdd(availableWidgets[k], suffix)
    \/ \E widgetId \in OverlayIds : handleRemove(widgetId)
    \/ \E widgetId \in OverlayIds, st \in SettingsValues :
          handleSettingsSave(widgetId, st)
    \/ clearLayout
    \/ \E mode \in BOOLEAN : changeEditMode(mode)
    \/ \E newLayout \in EngineLayouts(availableWidgets, widgets) :
          handleLayoutChange(newLayout)
    \/ handleRestoreDefaultConfig

Spec == Init /\ [][Next]_vars

(* The store delivers every notification: observe$ emits each value set *)
SpecFair == Spec /\ WF_vars(Notify)

-----------------------------------------------------------------------------
(* A second specification: the first render and handleAdd, from a wider    *)
(* range of props and stored values                                        *)

WideElem == Elem("WideCard", {"wide"}, {9}, {}, {3}, {5}, {}, {})

FreeElem == Elem("FreeCard", {"free"}, {}, {}, {}, {}, {}, {})

ChildrenWide == <<ClockElem, NewsElem, WideElem, FreeElem>>

ConfigsWide ==
    {{}} \cup
    {{<<c>>} : c \in {Conf({"clock"}, 0, 0, 8, 5), Conf({"clock"}, 0, 0, 2, 1),
                      Conf({"news"}, 0, 0, 3, 3), Conf({"news"}, 1, 1, 9, 9),
                      Conf({"wide"}, 0, 0, 2, 7), Conf({"wide"}, 0, 0, 5, 5),
                      Conf({"free"}, 0, 0, 12, 6)}} \cup
    {{<<Conf({"ghost"}, 0, 0, 2, 2), Conf({"wide"}, 2, 0, 4, 4)>>},
     {<<Conf({"news"}, 0, 0, 9, 2), Conf({}, 0, 2, 1, 1)>>}}

Drop(rec, key) == [k \in DOMAIN rec \ {key} |-> rec[k]]

GoodWidget == StoredWidget(<<"clock", "__", "1", "a">>, 0, 0, 4, 2, {4}, {2}, FALSE)

GoodWidget2 == StoredWidget(<<"news", "__", "2", "b">>, 0, 3, 6, 4, {8}, {}, FALSE)

(* JSON objects that are no GridWidget *)
BadWidgets ==
    {Drop(GoodWidget2, "id"), Drop(GoodWidget2, "settings"),
     Drop(GoodWidget2, "layout"),
     [GoodWidget2 EXCEPT !.layout = Drop(@, "x")],
     [GoodWidget2 EXCEPT !.layout.y = JsonNull],
     [GoodWidget2 EXCEPT !.layout = Drop(@, "isResizable")]}

WidgetListsWide ==
    {<<>>, <<GoodWidget>>, <<GoodWidget2, GoodWidget>>} \cup
    {<<GoodWidget, b>> : b \in BadWidgets}

RawJson(json) == [kind |-> "json", json |-> json]

RawValuesWide ==
    {NotJson,
     RawJson([version |-> 1]),
     RawJson([version |-> 1, pages |-> [other |-> <<GoodWidget>>]])} \cup
    {RawJson([version |-> v, pages |-> [default |-> ws]]) :
        v \in {1, 2}, ws \in WidgetListsWide}

SnapshotsWide ==
    {Absent, [presence |-> "unknown"]} \cup {Present(raw) : raw \in RawValuesWide}

InitWide ==
    \/ \E config \in ConfigsWide :
          InitWith([children |-> ChildrenWide, config |-> config], Absent)
    \/ \E config \in Configs, snap \in SnapshotsWide :
          InitWith([children |-> ChildrenOK, config |-> config], snap)

NextWide ==
    \/ Mount
    \/ OpenAddWidgetDialog
    \/ \E k \in 1..Len(availableWidgets), suffix \in Suffixes :
          handleAdd(availableWidgets[k], suffix)

SpecWide == InitWide /\ [][NextWide]_vars

-----------------------------------------------------------------------------
(* A third specification: the default layout builder alone, applied by the *)
(* first render to every config of up to MaxConfigLen entries              *)

ConfigEntries ==
    {Conf({"clock"}, 0, 3, 8, 5), Conf({"wide"}, 2, 0, 4, 4),
     Conf({"ghost"}, 4, 0, 2, 2), Conf({}, 0, 2, 1, 1)}

ConfigsBuild ==
    UNION {[1..n -> ConfigEntries] : n \in 0..MaxConfigLen}

InitBuild ==
    \E config \in ConfigsBuild :
        InitWith([children |-> ChildrenWide, config |-> {config}], Absent)

NextBuild == Mount

SpecBuild == InitBuild /\ [][NextBuild]_vars

-----------------------------------------------------------------------------
(* Properties *)

(* The id of a widget as an optional value *)
IdOf(gw) == IF "id" \in DOMAIN gw THEN {gw.id} ELSE {}

(* pages.default of the persisted document, empty when there is none *)
PersistedWidgets ==
    IF store = {} THEN <<>>
    ELSE LET raw == Some(store)
         IN  IF raw.kind = "json" /\ "pages" \in DOMAIN raw.json
                /\ "default" \in DOMAIN raw.json.pages
             THEN raw.json.pages.default
             ELSE <<>>

(* C1: once the notification of the latest save is delivered, the widgets  *)
(* the store loads are exactly the list that was passed to that save,      *)
(* for every saved list of GridWidgets (each with id, layout, settings).   *)
C1_SaveLoadRoundTrip ==
    (/\ Live
     /\ nSaves > 0
     /\ inflight = <<>>
     /\ \A i \in 1..Len(saved) :
           {"id", "layout", "settings"} \subseteq DOMAIN saved[i])
        => widgets = saved

(* C3: the widget add appends is at x = 0, and at y = 0 when the list add  *)
(* saw was empty, else one below the lowest bottom edge (y + h) of it.     *)
C3_AddPlacement ==
    last.op = "add" =>
        LET before == SubSeq(saved, 1, Len(saved) - 1)
            new    == saved[Len(saved)]
        IN  /\ new.layout.x = 0
            /\ new.layout.y =
                  IF before = <<>> THEN 0
                  ELSE 1 + CHOOSE m \in {before[i].layout.y + before[i].layout.h :
                                            i \in 1..Len(before)} :
                               \A i \in 1..Len(before) :
                                   before[i].layout.y + before[i].layout.h <= m

(* C4: the ids of the widgets of the current list, and of the list last    *)
(* saved, are pairwise distinct.                                           *)
C4_IdsDistinct ==
    \A ws \in {widgets, saved} :
        \A i, j \in 1..Len(ws) : i # j => IdOf(ws[i]) # IdOf(ws[j])

(* C5: every widget of the list last saved has isDraggable = isResizable   *)
(* = editMode (editMode changes only in changeEditMode, which saves).      *)
C5_FlagsFollowEditMode ==
    nSaves > 0 =>
        \A i \in 1..Len(saved) :
            /\ saved[i].layout.isDraggable = saved[i].layout.isResizable
            /\ saved[i].layout.isResizable = editMode

(* C6: while editMode is false (it stays false from setEditMode(false)     *)
(* until the next setEditMode), a call of onLayoutChange, with any layout, *)
(* issues no save and leaves the widget list and the stored document as    *)
(* they are.                                                               *)
C6_LockedLayoutChangeIgnored ==
    [][ /\ (~editMode /\ \E newLayout \in EngineLayouts(availableWidgets, widgets) :
                            handleLayoutChange(newLayout))
           => UNCHANGED <<store, inflight, homeSnapshot, widgets, saved, nSaves>>
        /\ (mounted /\ ~editMode /\ editMode') => last'.op = "setEditMode"
      ]_vars

(* A document saved in edit mode was loaded, setEditMode(false) was the    *)
(* only save, and onLayoutChange was called after it.                      *)
C6_Witness ==
    /\ homeSnapshot = Present(DocMidEdit)
    /\ ~editMode
    /\ nSaves = 1
    /\ Len(saved) = 2
    /\ last.op = "layoutChange"

(* C7: restoreDefault called after clear saves exactly the default layout  *)
(* of the first render.                                                    *)
C7_ClearThenRestore ==
    [][(last.op = "clear" /\ last'.op = "restoreDefault")
          => saved' = firstDefault]_vars

(* The name prefix of the widget's id matches no widget of the catalog *)
IsOrphan(gw) ==
    getWidgetByName(availableWidgets, getWidgetNameFromKey(gw.id)) = {}

(* C8: a persisted widget whose name has no catalog match stays in the     *)
(* persisted document over every step but a remove of its id, a clear or   *)
(* a restoreDefault.                                                       *)
C8_OrphanKept ==
    [][\A i \in 1..Len(PersistedWidgets) :
          LET gw == PersistedWidgets[i]
          IN  (/\ IdOf(gw) # {}
               /\ IsOrphan(gw)
               /\ last'.op \notin {"clear", "restoreDefault"}
               /\ ~(last'.op = "remove" /\ last'.id = gw.id))
              => \E j \in 1..Len(PersistedWidgets') :
                     IdOf(PersistedWidgets'[j]) = IdOf(gw)]_vars

(* The children whose derived record passes the Widget schema, in order *)
ValidWidgetsOf(elements) ==
    SelectSeq(Map(SelectByComponentData(elements), WidgetOf), WidgetSchemaOK)

(* C9: the catalog derivation raises no error and yields the valid         *)
(* children in declaration order.                                          *)
C9_CatalogBestEffort ==
    mounted => (~renderError /\ availableWidgets = ValidWidgetsOf(props.children))

(* The stored value is absent, is no JSON, or is no version-1 document *)
Malformed(snap) ==
    \/ snap.presence # "present"
    \/ snap.value.kind # "json"
    \/ LET doc == snap.value.json
       IN  \/ doc.version # 1
           \/ "pages" \notin DOMAIN doc
           \/ "default" \notin DOMAIN doc.pages
           \/ \E i \in 1..Len(doc.pages.default) :
                  ~GridWidgetSchemaOK(doc.pages.default[i])

(* C2: when the stored value is absent, unparseable or schema-invalid, the *)
(* render does not fail and widgets is the default it was given.           *)
C2_LoadFallsBack ==
    (mounted /\ Malformed(homeSnapshot)) =>
        (~renderError /\ widgets = defaultLayout)

(* A version-1 document with an ill-typed widget was read, and the         *)
(* non-empty default came back.                                            *)
C2_Witness ==
    /\ mounted
    /\ homeSnapshot.presence = "present"
    /\ homeSnapshot.value.kind = "json"
    /\ homeSnapshot.value.json.version = 1
    /\ "pages" \in DOMAIN homeSnapshot.value.json
    /\ "default" \in DOMAIN homeSnapshot.value.json.pages
    /\ \E i \in 1..Len(homeSnapshot.value.json.pages.default) :
          ~GridWidgetSchemaOK(homeSnapshot.value.json.pages.default[i])
    /\ defaultLayout # <<>>
    /\ widgets = defaultLayout

(* v is min(max, requested), max being optional *)
ClampOK(v, maxOpt, requested) ==
    /\ v <= requested
    /\ \A m \in maxOpt : v <= m
    /\ v = requested \/ v \in maxOpt

CatalogWidgetOf(gw) ==
    Some(getWidgetByName(availableWidgets, getWidgetNameFromKey(gw.id)))

(* The config entries build keeps *)
ResolvedEntries ==
    IF props.config = {} THEN <<>>
    ELSE SelectSeq(Some(props.config),
                   LAMBDA c : /\ c.component # {}
                              /\ \E k \in 1..Len(availableWidgets) :
                                    availableWidgets[k].name = Some(c.component))

(* C10: a widget created by build has w = min(maxWidth, requested width)   *)
(* and h = min(maxHeight, requested height); one created by add has        *)
(* w = min(maxWidth, width ?? 12) and h = min(maxHeight, height ?? 4).     *)
C10_SizeWithinMax ==
    Live =>
        /\ Len(defaultLayout) = Len(ResolvedEntries)
        /\ \A k \in 1..Len(defaultLayout) :
              LET gw == defaultLayout[k]
                  cw == CatalogWidgetOf(gw)
                  c  == ResolvedEntries[k]
              IN  /\ ClampOK(gw.layout.w, cw.maxWidth, c.width)
                  /\ ClampOK(gw.layout.h, cw.maxHeight, c.height)
        /\ last.op = "add" =>
              LET gw == saved[Len(saved)]
                  cw == CatalogWidgetOf(gw)
              IN  /\ ClampOK(gw.layout.w, cw.maxWidth,
                             IF cw.width = {} THEN 12 ELSE Some(cw.width))
                  /\ ClampOK(gw.layout.h, cw.maxHeight,
                             IF cw.height = {} THEN 4 ELSE Some(cw.height))

(* build cut a requested width down to maxWidth, and add cut the default   *)
(* width of a widget down to its maxWidth.                                 *)
C10_Witness ==
    /\ Live
    /\ \E k \in 1..Len(defaultLayout) :
          defaultLayout[k].layout.w < ResolvedEntries[k].width
    /\ last.op = "add"
    /\ LET gw == saved[Len(saved)]
       IN  /\ CatalogWidgetOf(gw).width # {}
           /\ gw.layout.w < Some(CatalogWidgetOf(gw).width)

(* The config entry resolves to no name, or to a name the catalog lacks *)
Unresolvable(c) ==
    \/ c.component = {}
    \/ \A k \in 1..Len(availableWidgets) :
           availableWidgets[k].name # Some(c.component)

(* C11: build drops exactly the unresolvable entries of config (length     *)
(* N - M) and keeps the others in config order, each with both flags false *)
(* and empty settings.                                                     *)
C11_BuildDropsUnresolvable ==
    Live =>
        LET config == IF props.config = {} THEN <<>> ELSE Some(props.config)
            kept   == SelectSeq(config, LAMBDA c : ~Unresolvable(c))
            M      == Cardinality({i \in 1..Len(config) : Unresolvable(config[i])})
        IN  /\ Len(defaultLayout) = Len(config) - M
            /\ \A k \in 1..Len(defaultLayout) :
                  LET gw == defaultLayout[k]
                  IN  /\ getWidgetNameFromKey(gw.id) = <<Some(kept[k].component)>>
                      /\ gw.layout.i = gw.id
                      /\ gw.layout.x = kept[k].x
                      /\ gw.layout.y = kept[k].y
                      /\ gw.layout.isDraggable = FALSE
                      /\ gw.layout.isResizable = FALSE
                      /\ gw.settings = {}

(* A config of three entries, the middle one unresolvable, was built into  *)
(* two widgets of different names.                                         *)
C11_Witness ==
    /\ Live
    /\ props.config # {}
    /\ Len(Some(props.config)) = 3
    /\ Unresolvable(Some(props.config)[2])
    /\ Len(defaultLayout) = 2
    /\ getWidgetNameFromKey(defaultLayout[1].id) = <<"wide">>
    /\ getWidgetNameFromKey(defaultLayout[2].id) = <<"clock">>

(* C12: remove(id) saves a list with no widget of that id, in which the    *)
(* other widgets of the list it saw are unchanged and in their previous    *)
(* order; when no widget has the id the list's contents are unchanged.     *)
C12_RemoveFrame ==
    [][\A widgetId \in OverlayIds :
          handleRemove(widgetId) =>
              LET keptIdx == {i \in 1..Len(widgets) : IdOf(widgets[i]) # {widgetId}}
              IN  /\ \A k \in 1..Len(saved') : IdOf(saved'[k]) # {widgetId}
                  /\ Len(saved') = Cardinality(keptIdx)
                  /\ \A i \in keptIdx :
                        saved'[Cardinality({j \in keptIdx : j <= i})] = widgets[i]
                  /\ keptIdx = 1..Len(widgets) => saved' = widgets
                  /\ PersistedWidgets' = Map(saved', JsonWidget)]_vars

(* One of three widgets was removed, the two others were kept. *)
C12_Witness ==
    /\ last.op = "remove"
    /\ Len(widgets) = 3
    /\ Len(saved) = 2
    /\ \A k \in 1..2 : saved[k].id # last.id
    /\ \E i \in 1..3 : widgets[i].id = last.id

(* remove was called with a key no widget has as its id: nothing was       *)
(* removed.                                                                *)
C12_WitnessAbsentId ==
    /\ last.op = "remove"
    /\ \A i \in 1..Len(widgets) : widgets[i].id # last.id
    /\ saved = widgets
    /\ saved # <<>>

(* C13: saveSettings(id, settings) replaces the settings of the widget     *)
(* with that id and saves; its id and layout, the other widgets and the    *)
(* order stay as they are.  When no widget has the id, no save is issued   *)
(* and the widget list and the persisted document stay as they are.        *)
C13_SettingsFrame ==
    [][\A widgetId \in OverlayIds, st \in SettingsValues :
          handleSettingsSave(widgetId, st) =>
              IF \E i \in 1..Len(widgets) : IdOf(widgets[i]) = {widgetId}
              THEN /\ nSaves' = nSaves + 1
                   /\ saved' = widgets'
                   /\ PersistedWidgets' = Map(saved', JsonWidget)
                   /\ Len(widgets') = Len(widgets)
                   /\ \E i \in 1..Len(widgets) :
                         /\ IdOf(widgets[i]) = {widgetId}
                         /\ widgets'[i].settings = st
                         /\ widgets'[i].id = widgets[i].id
                         /\ widgets'[i].layout = widgets[i].layout
                         /\ DOMAIN widgets'[i] = DOMAIN widgets[i]
                         /\ \A j \in 1..Len(widgets) :
                               j # i => widgets'[j] = widgets[j]
              ELSE UNCHANGED <<widgets, store, inflight, homeSnapshot, saved, nSaves>>]_vars

(* The settings of the second of two widgets were saved. *)
C13_Witness ==
    /\ last.op = "saveSettings"
    /\ nSaves = 1
    /\ Len(saved) = 2
    /\ saved[1].settings = {}
    /\ saved[2].id = last.id
    /\ saved[2].settings # {}

(* saveSettings was called with a key no widget has as its id: no save. *)
C13_WitnessAbsentId ==
    /\ last.op = "saveSettings"
    /\ nSaves = 0
    /\ widgets # <<>>
    /\ \A i \in 1..Len(widgets) : widgets[i].id # last.id

(* C14: an add issued after an add, whether or not the notification of the *)
(* first has been delivered, saves the list the first add saved with one   *)
(* more widget appended: both new widgets are persisted.                   *)
C14_NoLostUpdate ==
    [][(/\ last.op = "add"
        /\ last'.op = "add"
        /\ nSaves' = nSaves + 1)
          => /\ SubSeq(saved', 1, Len(saved') - 1) = saved
             /\ Len(PersistedWidgets') = Len(PersistedWidgets) + 1]_vars

(* C15: every widget that onLayoutChange saves in edit mode has an id and  *)
(* settings, both taken from a widget of the list the handler saw.         *)
C15_LayoutChangeWellFormed ==
    [][(/\ editMode
        /\ \E newLayout \in EngineLayouts(availableWidgets, widgets) :
               handleLayoutChange(newLayout))
          => \A k \in 1..Len(saved') :
                 /\ {"id", "settings"} \subseteq DOMAIN saved'[k]
                 /\ \E i \in 1..Len(widgets) :
                        /\ widgets[i].id = saved'[k].id
                        /\ widgets[i].settings = saved'[k].settings]_vars

(* C16: before any operation, editMode is true exactly when some widget of *)
(* the loaded list has isResizable = true, whether the stored document was *)
(* in the first snapshot or arrived by a later notification.               *)
C16_EditModeFollowsLoaded ==
    (Live /\ nSaves = 0) => (editMode <=> editModeOn(widgets))

(* C17: add saves the list it saw with one new widget at the end, with     *)
(* empty settings and both flags equal to editMode; and when the           *)
(* notification of that save is delivered, the loaded list is the saved    *)
(* one.                                                                    *)
C17_AddAppends ==
    [][/\ (\E k \in 1..Len(availableWidgets), suffix \in Suffixes :
               handleAdd(availableWidgets[k], suffix))
          => /\ Len(saved') = Len(widgets) + 1
             /\ SubSeq(saved', 1, Len(widgets)) = widgets
             /\ saved'[Len(saved')].settings = {}
             /\ saved'[Len(saved')].layout.isDraggable = editMode
             /\ saved'[Len(saved')].layout.isResizable = editMode
       /\ (last.op = "add" /\ Len(inflight) = 1 /\ nSaves > 0 /\ Notify)
          => widgets' = saved]_vars

(* C18: once a save has been issued, the widgets of the component          *)
(* eventually equal the list passed to the latest save.                    *)
C18_Convergence ==
    (Live /\ nSaves > 0) ~> (widgets = saved)

(* C19: onLayoutChange in edit mode issues one save of one widget per      *)
(* entry of newLayout; for an entry whose key is the id of a widget of the *)
(* list, the saved widget has that id, that widget's settings and keys,    *)
(* and the entry as its whole layout.                                      *)
C19_LayoutChangeMerges ==
    [][\A newLayout \in EngineLayouts(availableWidgets, widgets) :
          (editMode /\ handleLayoutChange(newLayout)) =>
              /\ nSaves' = nSaves + 1
              /\ Len(inflight') = Len(inflight) + 1
              /\ PersistedWidgets' = Map(saved', JsonWidget)
              /\ Len(saved') = Len(newLayout)
              /\ \A k \in 1..Len(newLayout) :
                    (\E i \in 1..Len(widgets) : IdOf(widgets[i]) = {newLayout[k].i}) =>
                        /\ saved'[k].layout = newLayout[k]
                        /\ saved'[k].id = newLayout[k].i
                        /\ \E i \in 1..Len(widgets) :
                              /\ IdOf(widgets[i]) = {newLayout[k].i}
                              /\ saved'[k].settings = widgets[i].settings
                              /\ DOMAIN saved'[k] = DOMAIN widgets[i]]_vars

(* In edit mode the engine moved a widget that has settings: the saved     *)
(* widget has the new x and the settings.                                  *)
C19_Witness ==
    /\ last.op = "layoutChange"
    /\ editMode
    /\ nSaves = 2
    /\ \E k \in 1..Len(saved), i \in 1..Len(widgets) :
          /\ IdOf(saved[k]) = IdOf(widgets[i])
          /\ IdOf(saved[k]) # {}
          /\ saved[k].settings # {}
          /\ saved[k].settings = widgets[i].settings
          /\ saved[k].layout.x \in MoveXs
          /\ widgets[i].layout.x \notin MoveXs

=============================================================================
